---- MODULE Spec2Model ----
(***************************************************************************)
(* Model of the admin service of libsplinter (src/libsplinter/src/admin/   *)
(* mod.rs): the service lifecycle (start, stop, destroy), the inbound      *)
(* message handler, the digest helpers, the REST routes, the commit of     *)
(* decided proposals, and the locking of new, start and stop by statement. *)
(* The shared state (admin/shared.rs) and the consensus manager            *)
(* (admin/consensus.rs) are not part of the source tree at hand; the parts *)
(* of them the handlers call are modelled from the specification.          *)
(***************************************************************************)
EXTENDS Integers, Sequences, FiniteSets, TLC

VARIABLES
    consensus,       \* AdminService.consensus : Option<AdminConsensusManager>
    network_sender,  \* AdminServiceShared.network_sender : Option<sender>
    pending,         \* AdminServiceShared pending proposals: id -> (proposal, payload)
    queued,          \* proposals waiting for peer authorization: id -> peers not yet sent to
    authorized,      \* peers the authorization inquisitor reports as authorized
    poisoned,        \* the Mutex around the shared state is poisoned
    alive,           \* the AdminService value has not been consumed by destroy
    phase,           \* lifecycle as the specification names it (history variable)
    directory,       \* circuits committed to the circuit directory
    subscribers,     \* subscriber registry: the channels registered, with their type
    call,            \* the last operation: name, inputs, return value, effects in order
    lock,            \* the thread that holds the Mutex around the shared state, or Free
    pc,              \* where each thread is in the function it runs
    service_registry \* calls the ServiceNetworkRegistry has received, counted

vars == <<consensus, network_sender, pending, queued, authorized, poisoned,
          alive, phase, directory, subscribers, call, lock, pc, service_registry>>

None == "None"
Some == "Some"

\* No thread holds the Mutex.
Free == "free"

\* The registry has received no call.
NoCalls == [connects |-> 0, disconnects |-> 0]

\* No thread is inside a function of the service: the service is constructed,
\* the callback is registered and no consensus engine runs.
AllIdle == [main |-> "idle", engine |-> "absent", auth |-> "idle", intake |-> "idle"]

\* ---------------------------------------------------------------- data

LocalNode == "n1"
Peers == {"n2", "n3"}

\* A SplinterService of a roster.
Service(id, allowed_nodes) ==
    [service_id |-> id, service_type |-> "sabre", allowed_nodes |-> allowed_nodes]

\* Circuits a client or a peer may propose. CircuitA and CircuitB share a
\* circuit_id and differ in their members; CircuitBad has too few members.

CircuitA == [circuit_id |-> "c1", members |-> <<"n1", "n2">>,
             circuit_management_type |-> "mt1",
             roster |-> <<Service("service-a", {"n1"}), Service("service-b", {"n2"})>>]
CircuitB == [circuit_id |-> "c1", members |-> <<"n1", "n2", "n3">>,
             circuit_management_type |-> "mt1",
             roster |-> <<Service("service-a", {"n2", "n1"}), Service("service-b", {"n1"}),
                          Service("service-c", {"n3"})>>]
CircuitC == [circuit_id |-> "c2", members |-> <<"n3", "n1">>,
             circuit_management_type |-> "mt2",
             roster |-> <<Service("service-d", {"n3"})>>]
CircuitBad == [circuit_id |-> "c3", members |-> <<"n1">>,
               circuit_management_type |-> "mt1",
               roster |-> <<Service("service-a", {"n1"})>>]

ValidCircuits == {CircuitA, CircuitB, CircuitC}
Circuits == ValidCircuits \cup {CircuitBad}

\* CircuitManagementPayload carrying a CircuitCreateRequest.
CreateRequest(circuit) == [action |-> "CIRCUIT_CREATE_REQUEST", circuit |-> circuit]

Payloads == {CreateRequest(c) : c \in ValidCircuits}

\* ---------------------------------------------------------------- digest

\* The SHA-256 digest of a serialized message, as the bytes openssl returns.
\* The digest function itself is a library primitive: it is represented by a
\* fixed table that gives distinct messages distinct digests.
Digest(message) ==
    CASE message = CreateRequest(CircuitA) -> <<1, 35, 160>>
      [] message = CreateRequest(CircuitB) -> <<18, 52, 10>>
      [] message = CreateRequest(CircuitC) -> <<171, 5, 0>>
      [] message = CreateRequest(CircuitBad) -> <<0, 255, 16>>
      [] message = CircuitA -> <<200, 9, 77>>
      [] message = CircuitB -> <<15, 16, 17>>
      [] message = CircuitC -> <<99, 1, 254>>
      [] OTHER -> <<7, 7, 7>>

HexDigit(n) ==
    CASE n = 0 -> "0" [] n = 1 -> "1" [] n = 2 -> "2" [] n = 3 -> "3"
      [] n = 4 -> "4" [] n = 5 -> "5" [] n = 6 -> "6" [] n = 7 -> "7"
      [] n = 8 -> "8" [] n = 9 -> "9" [] n = 10 -> "a" [] n = 11 -> "b"
      [] n = 12 -> "c" [] n = 13 -> "d" [] n = 14 -> "e" [] n = 15 -> "f"

\* write!(&mut buf, "{:0x}", b): lowercase hex of one byte with no width,
\* hence no leading zero for a byte below 16.
FormatByte(b) ==
    IF b < 16 THEN HexDigit(b) ELSE HexDigit(b \div 16) \o HexDigit(b % 16)

RECURSIVE to_hex(_)
to_hex(bytes) ==
    IF bytes = <<>> THEN ""
    ELSE FormatByte(Head(bytes)) \o to_hex(Tail(bytes))

\* sha256(message): Ok(hex string of the digest), or Err when the message
\* cannot be serialized.
sha256(message, ser_ok) ==
    IF ser_ok THEN [ok |-> TRUE, value |-> to_hex(Digest(message))]
    ELSE [ok |-> FALSE, value |-> "Sha256Error"]

\* Faulty variant of admin_service_id: a single colon.
admin_service_id_one_colon(node_id) == "admin:" \o node_id

\* format!("admin::{}", node_id)
admin_service_id(node_id) == "admin::" \o node_id

service_id == admin_service_id(LocalNode)

\* ---------------------------------------------------------------- effects

\* The calls a handler makes on its collaborators, in program order.
Connect(ok) == [kind |-> "connect", service_id |-> service_id, ok |-> ok]
Disconnect(ok) == [kind |-> "disconnect", service_id |-> service_id, ok |-> ok]
SetNetworkSender(v) == [kind |-> "set_network_sender", value |-> v]
ConsensusNew(ok) == [kind |-> "consensus_new", service_id |-> service_id, ok |-> ok]
ConsensusShutdown(ok) == [kind |-> "consensus_shutdown", ok |-> ok]

\* The record of one call: what was called with what, the state it found,
\* what it returned and the calls it made.
Call(op, arg, ret, effects) ==
    [op |-> op, arg |-> arg, ret |-> ret, effects |-> effects,
     pre |-> [consensus |-> consensus, network_sender |-> network_sender,
              phase |-> phase]]

NoArg == "-"

\* ---------------------------------------------------------------- lifecycle

\* Faulty variant of is_started: start does not look at the consensus manager.
is_started_never == FALSE

\* self.consensus.is_some()
is_started == consensus # None

\* AdminService::start. connect_ok: the registry hands out a sender;
\* new_ok: AdminConsensusManager::new succeeds.
start_outcome(connect_ok, new_ok) ==
    IF is_started THEN
        [ret |-> "AlreadyStarted", effects |-> <<>>,
         consensus |-> consensus, network_sender |-> network_sender]
    ELSE IF ~connect_ok THEN
        [ret |-> "ServiceConnectionError", effects |-> <<Connect(FALSE)>>,
         consensus |-> consensus, network_sender |-> network_sender]
    ELSE IF poisoned THEN
        [ret |-> "PoisonedLock", effects |-> <<Connect(TRUE)>>,
         consensus |-> consensus, network_sender |-> network_sender]
    ELSE IF ~new_ok THEN
        [ret |-> "Internal",
         effects |-> <<Connect(TRUE), SetNetworkSender(Some), ConsensusNew(FALSE)>>,
         consensus |-> consensus, network_sender |-> Some]
    ELSE
        [ret |-> "Ok",
         effects |-> <<Connect(TRUE), SetNetworkSender(Some), ConsensusNew(TRUE)>>,
         consensus |-> Some, network_sender |-> Some]

start(connect_ok, new_ok) ==
    /\ alive
    /\ LET o == start_outcome(connect_ok, new_ok) IN
        /\ consensus' = o.consensus
        /\ network_sender' = o.network_sender
        /\ phase' = IF o.ret = "Ok" THEN "Started" ELSE phase
        /\ call' = Call("start", NoArg, o.ret, o.effects)
    /\ UNCHANGED <<pending, queued, authorized, poisoned, alive, directory, subscribers,
                   lock, pc, service_registry>>

\* Faulty variant of consensus_after_take: the manager is borrowed, not taken.
consensus_after_borrow == consensus

\* self.consensus.take(): the field is left empty.
consensus_after_take == None

\* AdminService::stop. first_ok, second_ok: the results of the two
\* registry.disconnect calls; shutdown_ok: the result of the consensus
\* manager's shutdown.
stop_outcome(first_ok, shutdown_ok, second_ok) ==
    IF ~first_ok THEN
        [ret |-> "ServiceDisconnectionError", effects |-> <<Disconnect(FALSE)>>,
         consensus |-> consensus, network_sender |-> network_sender]
    ELSE IF poisoned THEN
        [ret |-> "PoisonedLock", effects |-> <<Disconnect(TRUE)>>,
         consensus |-> consensus, network_sender |-> network_sender]
    ELSE IF consensus = None THEN
        [ret |-> "NotStarted", effects |-> <<Disconnect(TRUE)>>,
         consensus |-> consensus_after_take, network_sender |-> network_sender]
    ELSE IF ~shutdown_ok THEN
        [ret |-> "Internal",
         effects |-> <<Disconnect(TRUE), ConsensusShutdown(FALSE)>>,
         consensus |-> consensus_after_take, network_sender |-> network_sender]
    ELSE IF ~second_ok THEN
        [ret |-> "ServiceDisconnectionError",
         effects |-> <<Disconnect(TRUE), ConsensusShutdown(TRUE), Disconnect(FALSE)>>,
         consensus |-> consensus_after_take, network_sender |-> network_sender]
    ELSE
        [ret |-> "Ok",
         effects |-> <<Disconnect(TRUE), ConsensusShutdown(TRUE), Disconnect(TRUE),
                       SetNetworkSender(None)>>,
         consensus |-> consensus_after_take, network_sender |-> None]

stop(first_ok, shutdown_ok, second_ok) ==
    /\ alive
    /\ LET o == stop_outcome(first_ok, shutdown_ok, second_ok) IN
        /\ consensus' = o.consensus
        /\ network_sender' = o.network_sender
        /\ phase' = IF o.ret = "Ok" THEN "Stopped" ELSE phase
        /\ call' = Call("stop", NoArg, o.ret, o.effects)
    /\ UNCHANGED <<pending, queued, authorized, poisoned, alive, directory, subscribers,
                   lock, pc, service_registry>>

\* Faulty variant of destroy_result: destroy does not look at the consensus manager.
destroy_result_always_ok == "Ok"

\* AdminService::destroy(self: Box<Self>): the service is consumed whatever
\* the result.
destroy_result == IF consensus # None THEN "NotStopped" ELSE "Ok"

destroy ==
    /\ alive
    /\ alive' = FALSE
    /\ phase' = IF destroy_result = "Ok" THEN "Destroyed" ELSE phase
    /\ call' = Call("destroy", NoArg, destroy_result, <<>>)
    /\ UNCHANGED <<consensus, network_sender, pending, queued, authorized, poisoned,
                   directory, subscribers,
                   lock, pc, service_registry>>

\* A thread panics while it holds the shared-state lock: std::sync::Mutex
\* reports the lock as poisoned to every later lock() call.
poison ==
    /\ ~poisoned
    /\ poisoned' = TRUE
    /\ call' = Call("poison", NoArg, "panic", <<>>)
    /\ UNCHANGED <<consensus, network_sender, pending, queued, authorized, alive, phase,
                   directory, subscribers,
                   lock, pc, service_registry>>

\* ---------------------------------------------------------------- messages

\* AdminMessage_Type on the wire.
TypeNumber(message_type) ==
    CASE message_type = "UNSET" -> 0
      [] message_type = "CONSENSUS_MESSAGE" -> 1
      [] message_type = "PROPOSED_CIRCUIT" -> 2

\* The envelope a default AdminMessage is: type UNSET, no body.
DefaultMessage == [message_type |-> "UNSET", body |-> <<>>]

ConsensusEnvelope(consensus_message) ==
    [message_type |-> "CONSENSUS_MESSAGE", body |-> consensus_message]

ProposedCircuit(expected_hash, circuit_payload, required_verifiers) ==
    [message_type |-> "PROPOSED_CIRCUIT",
     body |-> [expected_hash |-> expected_hash,
               circuit_payload |-> circuit_payload,
               required_verifiers |-> required_verifiers]]

\* Message::write_to_bytes of an envelope: the type tag, then the body. A
\* default message serializes to no bytes at all.
write_to_bytes(message) ==
    IF message = DefaultMessage THEN <<>>
    ELSE <<TypeNumber(message.message_type), message.body>>

\* A decoder that takes whatever it is given for a consensus message.
parse_from_bytes_lenient(bytes) ==
    IF Len(bytes) = 2 /\ bytes[1] = 2 THEN
        [ok |-> TRUE, value |-> [message_type |-> "PROPOSED_CIRCUIT", body |-> bytes[2]]]
    ELSE [ok |-> TRUE, value |-> ConsensusEnvelope(bytes)]

\* protobuf::parse_from_bytes::<AdminMessage>: no bytes decode to the default
\* message; bytes that are no envelope are an error.
parse_from_bytes(bytes) ==
    IF bytes = <<>> THEN [ok |-> TRUE, value |-> DefaultMessage]
    ELSE IF Len(bytes) = 2 /\ bytes[1] = 1 THEN
        [ok |-> TRUE, value |-> ConsensusEnvelope(bytes[2])]
    ELSE IF Len(bytes) = 2 /\ bytes[1] = 2 THEN
        [ok |-> TRUE, value |-> [message_type |-> "PROPOSED_CIRCUIT", body |-> bytes[2]]]
    ELSE [ok |-> FALSE, value |-> "ProtobufError"]

\* Bytes that are no AdminMessage.
Garbage == <<255>>

\* The PROPOSED_CIRCUIT messages peers send: two for the same payload with
\* different headers, one for a circuit with the same circuit_id and other
\* members, one for another circuit.
InboundProposals ==
    { ProposedCircuit("h1", CreateRequest(CircuitA), <<"n2">>),
      ProposedCircuit("h2", CreateRequest(CircuitA), <<"n2", "n3">>),
      ProposedCircuit("h1", CreateRequest(CircuitB), <<"n2", "n3">>),
      ProposedCircuit("h2", CreateRequest(CircuitC), <<"n3">>) }

InboundBytes ==
    {write_to_bytes(m) : m \in InboundProposals}
        \cup {write_to_bytes(ConsensusEnvelope("vote")), <<>>, Garbage}

\* The peer admin service a message arrives from: proposals for CircuitC from
\* n3, everything else from n2.
SenderOf(message_bytes) ==
    IF message_bytes = write_to_bytes(ProposedCircuit("h2", CreateRequest(CircuitC), <<"n3">>))
    THEN admin_service_id("n3") ELSE admin_service_id("n2")

\* What may go wrong while a message is handled: nothing, the serialization
\* of the payload, the delivery to the consensus manager.
Faults == {"none", "serialize", "deliver"}

\* ---------------------------------------------------------------- shared state

\* AdminServiceShared::add_pending_consesus_proposal: idempotent on an id
\* already present, an insertion otherwise.
add_pending_consesus_proposal(table, id, entry) ==
    IF id \in DOMAIN table THEN table
    ELSE [k \in DOMAIN table \cup {id} |-> IF k = id THEN entry ELSE table[k]]

AddPending(id) == [kind |-> "add_pending_consesus_proposal", id |-> id]
SendUpdate(update, ok) == [kind |-> "send_update", update |-> update, ok |-> ok]
ConsensusHandleMessage(message, ok) ==
    [kind |-> "consensus_handle_message", message |-> message, ok |-> ok]

ProposalReceived(proposal, from) ==
    [type |-> "ProposalReceived", proposal |-> proposal, from |-> from]

\* ---------------------------------------------------------------- handle_message

\* Faulty variant of inbound_proposal: summary and consensus_data exchanged.
inbound_proposal_swapped(id, body) ==
    [id |-> id, summary |-> body.required_verifiers,
     consensus_data |-> body.expected_hash]

\* Faulty variant of inbound_proposal: the id is the hash the sender
\* declared, not the digest computed from the payload.
inbound_proposal_declared_id(id, body) ==
    [id |-> body.expected_hash, summary |-> body.expected_hash,
     consensus_data |-> body.required_verifiers]

\* The proposal built from an inbound PROPOSED_CIRCUIT body and the digest of
\* its payload.
inbound_proposal(id, body) ==
    [id |-> id, summary |-> body.expected_hash,
     consensus_data |-> body.required_verifiers]

\* Faulty variant of handle_proposed_circuit: the update is sent to the
\* consensus manager before the lock is taken and the entry inserted.
handle_proposed_circuit_deliver_first(body, sender, ser_ok, deliver_ok) ==
    LET digest == sha256(body.circuit_payload, ser_ok)
        proposal == inbound_proposal(digest.value, body)
        added == add_pending_consesus_proposal(
                     pending, proposal.id, [proposal |-> proposal,
                                            payload |-> body.circuit_payload])
        update == ProposalReceived(proposal, sender)
    IN  IF ~digest.ok THEN
            [ret |-> "UnableToHandleMessage", effects |-> <<>>, pending |-> pending]
        ELSE IF consensus = None THEN
            [ret |-> "NotStarted", effects |-> <<>>, pending |-> pending]
        ELSE IF ~deliver_ok THEN
            [ret |-> "UnableToHandleMessage",
             effects |-> <<SendUpdate(update, FALSE)>>, pending |-> pending]
        ELSE IF poisoned THEN
            [ret |-> "PoisonedLock",
             effects |-> <<SendUpdate(update, TRUE)>>, pending |-> pending]
        ELSE
            [ret |-> "Ok",
             effects |-> <<SendUpdate(update, TRUE), AddPending(proposal.id)>>,
             pending |-> added]

\* The PROPOSED_CIRCUIT arm. ser_ok: the payload serializes; deliver_ok: the
\* consensus manager takes the update.
handle_proposed_circuit(body, sender, ser_ok, deliver_ok) ==
    LET digest == sha256(body.circuit_payload, ser_ok)
        proposal == inbound_proposal(digest.value, body)
        added == add_pending_consesus_proposal(
                     pending, proposal.id, [proposal |-> proposal,
                                            payload |-> body.circuit_payload])
        update == ProposalReceived(proposal, sender)
    IN  IF ~digest.ok THEN
            [ret |-> "UnableToHandleMessage", effects |-> <<>>, pending |-> pending]
        ELSE IF poisoned THEN
            [ret |-> "PoisonedLock", effects |-> <<>>, pending |-> pending]
        ELSE IF consensus = None THEN
            [ret |-> "NotStarted", effects |-> <<AddPending(proposal.id)>>,
             pending |-> added]
        ELSE IF ~deliver_ok THEN
            [ret |-> "UnableToHandleMessage",
             effects |-> <<AddPending(proposal.id), SendUpdate(update, FALSE)>>,
             pending |-> added]
        ELSE
            [ret |-> "Ok",
             effects |-> <<AddPending(proposal.id), SendUpdate(update, TRUE)>>,
             pending |-> added]

\* The CONSENSUS_MESSAGE arm.
handle_consensus_message(body, deliver_ok) ==
    IF consensus = None THEN
        [ret |-> "NotStarted", effects |-> <<>>, pending |-> pending]
    ELSE IF ~deliver_ok THEN
        [ret |-> "UnableToHandleMessage",
         effects |-> <<ConsensusHandleMessage(body, FALSE)>>, pending |-> pending]
    ELSE
        [ret |-> "Ok",
         effects |-> <<ConsensusHandleMessage(body, TRUE)>>, pending |-> pending]

\* AdminService::handle_message.
handle_message_outcome(message_bytes, sender, ser_ok, deliver_ok) ==
    LET parsed == parse_from_bytes(message_bytes) IN
    IF ~parsed.ok THEN
        [ret |-> "InvalidMessageFormat", effects |-> <<>>, pending |-> pending]
    ELSE IF parsed.value.message_type = "CONSENSUS_MESSAGE" THEN
        handle_consensus_message(parsed.value.body, deliver_ok)
    ELSE IF parsed.value.message_type = "PROPOSED_CIRCUIT" THEN
        handle_proposed_circuit(parsed.value.body, sender, ser_ok, deliver_ok)
    ELSE
        [ret |-> "InvalidMessageFormat", effects |-> <<>>, pending |-> pending]

handle_message(message_bytes, sender, ser_ok, deliver_ok) ==
    /\ alive
    /\ LET o == handle_message_outcome(message_bytes, sender, ser_ok, deliver_ok) IN
        /\ pending' = o.pending
        /\ call' = Call("handle_message",
                        [message_bytes |-> message_bytes, sender |-> sender],
                        o.ret, o.effects)
    /\ UNCHANGED <<consensus, network_sender, queued, authorized, poisoned, alive, phase,
                   directory, subscribers,
                   lock, pc, service_registry>>

\* ---------------------------------------------------------------- proposals

Send(recipient, message) ==
    [kind |-> "send", recipient |-> recipient, message |-> message]

\* The members of a circuit other than the local node, in roster order.
other_members(circuit) ==
    LET NotLocal(n) == n # LocalNode IN SelectSeq(circuit.members, NotLocal)

SeqToSet(seq) == {seq[i] : i \in DOMAIN seq}

\* Pending-proposal table: contains_circuit(circuit_id).
contains_circuit(table, circuit_id) ==
    \E id \in DOMAIN table : table[id].payload.circuit.circuit_id = circuit_id

\* Circuit validation: at least two members, unique by node id, the local
\* node among them; a roster unique by service id whose services are allowed
\* on members only; a circuit_id the directory does not hold.
is_valid_circuit(circuit) ==
    /\ Len(circuit.members) >= 2
    /\ Cardinality(SeqToSet(circuit.members)) = Len(circuit.members)
    /\ LocalNode \in SeqToSet(circuit.members)
    /\ \A i, j \in DOMAIN circuit.roster :
          circuit.roster[i].service_id = circuit.roster[j].service_id => i = j
    /\ \A i \in DOMAIN circuit.roster :
          circuit.roster[i].allowed_nodes \subseteq SeqToSet(circuit.members)
    /\ \A c \in directory : c.circuit_id # circuit.circuit_id

\* The PROPOSED_CIRCUIT envelope for a locally proposed circuit.
proposal_envelope(circuit) ==
    ProposedCircuit(to_hex(Digest(circuit)), CreateRequest(circuit),
                    other_members(circuit))

\* One PROPOSED_CIRCUIT envelope to the admin service of every other member.
broadcast_to_every_member(circuit, peers) ==
    [i \in DOMAIN other_members(circuit) |->
        Send(admin_service_id(other_members(circuit)[i]),
             write_to_bytes(proposal_envelope(circuit)))]

\* One PROPOSED_CIRCUIT envelope to the admin service of each node of peers.
broadcast(circuit, peers) ==
    [i \in DOMAIN peers |->
        Send(admin_service_id(peers[i]), write_to_bytes(proposal_envelope(circuit)))]

\* AdminServiceShared::propose_circuit.
propose_circuit(circuit) ==
    LET payload == CreateRequest(circuit)
        id == to_hex(Digest(payload))
        envelope == proposal_envelope(circuit)
        proposal == [id |-> id, summary |-> envelope.body.expected_hash,
                     consensus_data |-> envelope.body.required_verifiers]
        IsAuthorized(n) == n \in authorized
        NotAuthorized(n) == n \notin authorized
        ready == SelectSeq(other_members(circuit), IsAuthorized)
        waiting == SeqToSet(SelectSeq(other_members(circuit), NotAuthorized))
        unchanged == [pending |-> pending, queued |-> queued, effects |-> <<>>]
    IN  IF contains_circuit(pending, circuit.circuit_id) THEN
            [ret |-> "AlreadyPending"] @@ unchanged
        ELSE IF network_sender = None THEN
            [ret |-> "NotStarted"] @@ unchanged
        ELSE IF ~is_valid_circuit(circuit) THEN
            [ret |-> "InvalidCircuit"] @@ unchanged
        ELSE
            [ret |-> "Ok",
             pending |-> add_pending_consesus_proposal(
                             pending, id, [proposal |-> proposal, payload |-> payload]),
             queued |-> IF waiting = {} THEN queued
                        ELSE [k \in DOMAIN queued \cup {id} |->
                                 IF k = id THEN waiting ELSE queued[k]],
             effects |-> <<AddPending(id)>> \o broadcast(circuit, ready)]

\* The POST /admin/circuit handler. proto_ok: the request converts to a
\* CircuitCreateRequest.
create_circuit_outcome(circuit, proto_ok) ==
    LET unchanged == [pending |-> pending, queued |-> queued, effects |-> <<>>]
        o == propose_circuit(circuit)
    IN  IF ~proto_ok THEN
            [ret |-> "InvalidProto", status |-> "BadRequest"] @@ unchanged
        ELSE IF poisoned THEN
            [ret |-> "panic", status |-> "none"] @@ unchanged
        ELSE IF o.ret # "Ok" THEN
            [status |-> "BadRequest"] @@ o
        ELSE
            [status |-> "Accepted"] @@ o

create_circuit(circuit, proto_ok) ==
    /\ LET o == create_circuit_outcome(circuit, proto_ok) IN
        /\ pending' = o.pending
        /\ queued' = o.queued
        /\ call' = Call("create_circuit", [circuit |-> circuit],
                        o.ret, o.effects) @@ [status |-> o.status]
    /\ UNCHANGED <<consensus, network_sender, authorized, poisoned, alive, phase,
                   directory, subscribers,
                   lock, pc, service_registry>>

\* ---------------------------------------------------------------- authorization

\* The order in which queued proposals are examined.
QueueOrder == <<CircuitA, CircuitB, CircuitC>>

\* AdminServiceShared::on_authorization_change: the tracker takes the new
\* state; on Authorized, every queued proposal whose other members are now all
\* authorized is broadcast to the peers it was waiting for and leaves the queue.
on_authorization_change(peer_id, state) ==
    LET now == IF state = "Authorized" THEN authorized \cup {peer_id}
               ELSE authorized \ {peer_id}
        id_of(circuit) == to_hex(Digest(CreateRequest(circuit)))
        Released(circuit) ==
            /\ state = "Authorized"
            /\ network_sender # None
            /\ id_of(circuit) \in DOMAIN queued
            /\ SeqToSet(other_members(circuit)) \subseteq now
        released == SelectSeq(QueueOrder, Released)
        Waited(c) == LET Was(n) == n \in queued[id_of(c)]
                     IN  SelectSeq(other_members(c), Was)
        sends[i \in 0..Len(released)] ==
            IF i = 0 THEN <<>>
            ELSE sends[i - 1] \o broadcast(released[i], Waited(released[i]))
    IN  [authorized |-> now,
         queued |-> [k \in DOMAIN queued \ {id_of(c) : c \in SeqToSet(released)}
                        |-> queued[k]],
         effects |-> sends[Len(released)]]

\* A callback that takes the state change and does not pass it on.
auth_callback_dropped(peer_id, state) ==
    /\ call' = Call("auth_callback", [peer_id |-> peer_id, state |-> state], "Ok", <<>>)
    /\ UNCHANGED <<consensus, network_sender, pending, queued, authorized, poisoned,
                   alive, phase, directory, subscribers, lock, pc, service_registry>>

\* The callback AdminService::new registers with the authorization inquisitor.
auth_callback(peer_id, state) ==
    /\ LET o == on_authorization_change(peer_id, state) IN
        IF poisoned THEN
            /\ call' = Call("auth_callback", [peer_id |-> peer_id, state |-> state],
                            "AuthorizationCallbackError", <<>>)
            /\ UNCHANGED <<authorized, queued>>
        ELSE
            /\ authorized' = o.authorized
            /\ queued' = o.queued
            /\ call' = Call("auth_callback", [peer_id |-> peer_id, state |-> state],
                            "Ok", o.effects)
    /\ UNCHANGED <<consensus, network_sender, pending, poisoned, alive, phase,
                   directory, subscribers,
                   lock, pc, service_registry>>

AuthStates == {"Unknown", "Connecting", "Authorized", "Unauthorized"}

\* ---------------------------------------------------------------- subscribers

\* The channels clients may open, each for one circuit management type.
Channels == {[id |-> "ws1", type |-> "mt1"], [id |-> "ws2", type |-> "mt2"]}

ManagementTypes == {ch.type : ch \in Channels}

\* Subscriber registry: add_subscriber(management_type, channel).
add_subscriber(registry, channel) == registry \cup {channel}

\* The channels of a registry that are subscribed to a management type.
subscribers_of(registry, management_type) ==
    {ch \in registry : ch.type = management_type}

\* The GET /ws/admin/register/{type} handler. type_present: the path names a
\* type; ws_ok: the websocket handshake succeeds.
register_outcome(channel, type_present, ws_ok) ==
    IF ~type_present THEN
        [status |-> "BadRequest", subscribers |-> subscribers]
    ELSE IF poisoned THEN
        [status |-> "InternalServerError", subscribers |-> subscribers]
    ELSE IF ~ws_ok THEN
        [status |-> "InternalServerError", subscribers |-> subscribers]
    ELSE
        [status |-> "SwitchingProtocols",
         subscribers |-> add_subscriber(subscribers, channel)]

register(channel, type_present, ws_ok) ==
    /\ channel \notin subscribers
    /\ LET o == register_outcome(channel, type_present, ws_ok) IN
        /\ subscribers' = o.subscribers
        /\ call' = Call("register", [channel |-> channel], o.status, <<>>)
                       @@ [status |-> o.status]
    /\ UNCHANGED <<consensus, network_sender, pending, queued, authorized, poisoned,
                   alive, phase, directory,
                   lock, pc, service_registry>>

\* A client closes its channel: the subscriber is destroyed.
channel_closed(channel) ==
    /\ channel \in subscribers
    /\ subscribers' = subscribers \ {channel}
    /\ call' = Call("channel_closed", [channel |-> channel], "Ok", <<>>)
    /\ UNCHANGED <<consensus, network_sender, pending, queued, authorized, poisoned,
                   alive, phase, directory,
                   lock, pc, service_registry>>

\* ---------------------------------------------------------------- commit

DirectoryCommit(circuit, ok) ==
    [kind |-> "directory_commit", circuit |-> circuit, ok |-> ok]
StartService(service, ok) ==
    [kind |-> "start_service", service_id |-> service.service_id, ok |-> ok]
Publish(channel, event) ==
    [kind |-> "publish", channel |-> channel.id, event |-> event]
TakePending(id) == [kind |-> "take_pending", id |-> id]

CircuitEvent(type, circuit) == [type |-> type, circuit_id |-> circuit.circuit_id]

\* The ids of the proposals the consensus engine may decide.
ProposalIds == {to_hex(Digest(p)) : p \in Payloads}

\* Pending-proposal table: take(id).
take_pending(table, id) == [k \in DOMAIN table \ {id} |-> table[k]]

\* The directory holds a circuit with this circuit_id.
directory_contains(circuit_id) == \E c \in directory : c.circuit_id = circuit_id

\* A commit that is rolled back.
directory_rolled_back(circuit) == directory

\* CircuitDirectory::commit: a circuit_id is committed once.
directory_after_commit(circuit) == directory \cup {circuit}

\* Every roster service, local or not.
local_services_all(circuit) == circuit.roster

\* The roster services the local node runs, in roster order.
local_services(circuit) ==
    LET IsLocal(service) == LocalNode \in service.allowed_nodes
    IN  SelectSeq(circuit.roster, IsLocal)

\* One event to every subscriber of the circuit's management type.
publish_all(registry, circuit, type) ==
    LET RECURSIVE Each(_)
        Each(chs) ==
            IF chs = {} THEN <<>>
            ELSE LET ch == CHOOSE c \in chs : \A d \in chs : c.id = d.id \/ c.id # d.id
                 IN  <<Publish(ch, CircuitEvent(type, circuit))>> \o Each(chs \ {ch})
    IN  Each(subscribers_of(registry, circuit.circuit_management_type))

\* AdminServiceShared::on_proposal_accepted. dir_ok: the directory write
\* succeeds; orch_ok: the orchestrator starts the services.
on_proposal_accepted(id, dir_ok, orch_ok) ==
    LET unchanged == [pending |-> pending, directory |-> directory]
        circuit == pending[id].payload.circuit
        services == local_services(circuit)
        starts == [i \in DOMAIN services |-> StartService(services[i], orch_ok)]
        failures == IF orch_ok \/ services = <<>> THEN <<>>
                    ELSE publish_all(subscribers, circuit, "ServiceStartFailed")
    IN  IF id \notin DOMAIN pending THEN
            [ret |-> "UnknownProposal", effects |-> <<>>] @@ unchanged
        ELSE IF ~dir_ok \/ directory_contains(circuit.circuit_id) THEN
            [ret |-> "DirectoryError",
             effects |-> <<DirectoryCommit(circuit, FALSE)>>] @@ unchanged
        ELSE
            [ret |-> "Ok",
             effects |-> <<DirectoryCommit(circuit, TRUE)>> \o starts \o failures
                            \o publish_all(subscribers, circuit, "CircuitReady")
                            \o <<TakePending(id)>>,
             directory |-> directory_after_commit(circuit),
             pending |-> take_pending(pending, id)]

\* AdminServiceShared::on_proposal_rejected.
on_proposal_rejected(id) ==
    IF id \notin DOMAIN pending THEN
        [ret |-> "UnknownProposal", effects |-> <<>>,
         pending |-> pending, directory |-> directory]
    ELSE
        [ret |-> "Ok",
         effects |-> <<TakePending(id)>>
                        \o publish_all(subscribers, pending[id].payload.circuit,
                                       "CircuitRejected"),
         pending |-> take_pending(pending, id), directory |-> directory]

\* The consensus engine reports its decision on a proposal through the
\* handle it holds on the shared state.
decided(o, name, id) ==
    /\ consensus # None
    /\ IF poisoned THEN
           /\ call' = Call(name, [id |-> id], "PoisonedLock", <<>>)
           /\ UNCHANGED <<pending, directory>>
       ELSE
           /\ pending' = o.pending
           /\ directory' = o.directory
           /\ call' = Call(name, [id |-> id], o.ret, o.effects)
    /\ UNCHANGED <<consensus, network_sender, queued, authorized, poisoned, alive,
                   phase, subscribers,
                   lock, pc, service_registry>>

proposal_accepted(id, dir_ok, orch_ok) ==
    decided(on_proposal_accepted(id, dir_ok, orch_ok), "on_proposal_accepted", id)

proposal_rejected(id) ==
    decided(on_proposal_rejected(id), "on_proposal_rejected", id)

\* ---------------------------------------------------------------- votes

Votes == {"Accept", "Reject"}

\* The POST /admin/vote handler: the payload is decoded as a
\* CircuitProposalVote, logged and acknowledged. payload_ok: the body decodes.
vote_outcome(proposal_id, vote, payload_ok) ==
    IF ~payload_ok THEN [status |-> "BadRequest", effects |-> <<>>]
    ELSE [status |-> "Accepted", effects |-> <<>>]

vote(proposal_id, v, payload_ok) ==
    /\ LET o == vote_outcome(proposal_id, v, payload_ok) IN
        call' = Call("vote", [proposal_id |-> proposal_id, vote |-> v],
                     o.status, o.effects) @@ [status |-> o.status]
    /\ UNCHANGED <<consensus, network_sender, pending, queued, authorized, poisoned,
                   alive, phase, directory, subscribers,
                   lock, pc, service_registry>>

\* ---------------------------------------------------------------- specification

\* AdminService::new: no consensus manager, no network sender, empty tables.
Init ==
    /\ consensus = None
    /\ network_sender = None
    /\ pending = <<>>
    /\ queued = <<>>
    /\ authorized \in SUBSET Peers
    /\ poisoned = FALSE
    /\ alive = TRUE
    /\ phase = "Created"
    /\ directory = {}
    /\ subscribers = {}
    /\ call = [op |-> "new", arg |-> NoArg, ret |-> "Ok", effects |-> <<>>,
               pre |-> [consensus |-> None, network_sender |-> None,
                        phase |-> "Created"]]
    /\ lock = Free
    /\ pc = AllIdle
    /\ service_registry = NoCalls

Next ==
    \/ \E connect_ok, new_ok \in BOOLEAN : start(connect_ok, new_ok)
    \/ \E first_ok, shutdown_ok, second_ok \in BOOLEAN :
           stop(first_ok, shutdown_ok, second_ok)
    \/ destroy
    \/ \E message_bytes \in InboundBytes, fault \in Faults :
           handle_message(message_bytes, SenderOf(message_bytes),
                          fault # "serialize", fault # "deliver")
    \/ \E circuit \in Circuits, proto_ok \in BOOLEAN : create_circuit(circuit, proto_ok)
    \/ \E peer_id \in Peers, state \in AuthStates : auth_callback(peer_id, state)
    \/ poison

Spec == Init /\ [][Next]_vars

\* The commit pipeline: proposals arrive from clients and peers, clients
\* subscribe, and the consensus engine decides. Every peer is authorized, as
\* with the inquisitor of the unit test (is_authorized returns true).
InitCommit == Init /\ authorized = Peers

NextCommit ==
    \/ \E connect_ok, new_ok \in BOOLEAN : start(connect_ok, new_ok)
    \/ \E first_ok, shutdown_ok, second_ok \in BOOLEAN :
           stop(first_ok, shutdown_ok, second_ok)
    \/ destroy
    \/ \E message \in InboundProposals :
           handle_message(write_to_bytes(message), SenderOf(write_to_bytes(message)),
                          TRUE, TRUE)
    \/ \E circuit \in Circuits : create_circuit(circuit, TRUE)
    \/ \E channel \in Channels, type_present, ws_ok \in BOOLEAN :
           register(channel, type_present, ws_ok)
    \/ \E channel \in Channels : channel_closed(channel)
    \/ \E id \in ProposalIds, dir_ok, orch_ok \in BOOLEAN :
           proposal_accepted(id, dir_ok, orch_ok)
    \/ \E id \in ProposalIds : proposal_rejected(id)
    \/ \E id \in ProposalIds, v \in Votes, payload_ok \in BOOLEAN : vote(id, v, payload_ok)
    \/ poison

SpecCommit == InitCommit /\ [][NextCommit]_vars

\* The digest helper on its own: openssl's hash returns the digest bytes and
\* sha256 renders them with to_hex.
MaxLen == 3

ByteSamples == {0, 1, 15, 16, 17, 171}

RECURSIVE ByteSeqs(_)
ByteSeqs(n) ==
    IF n = 0 THEN {<<>>}
    ELSE ByteSeqs(n - 1) \cup
         {Append(bytes, b) : bytes \in {q \in ByteSeqs(n - 1) : Len(q) = n - 1},
                             b \in ByteSamples}

DigestBytes == ByteSeqs(MaxLen)

InitHex ==
    /\ consensus = None
    /\ network_sender = None
    /\ pending = <<>>
    /\ queued = <<>>
    /\ authorized = {}
    /\ poisoned = FALSE
    /\ alive = TRUE
    /\ phase = "Created"
    /\ directory = {}
    /\ subscribers = {}
    /\ \E digest \in DigestBytes : call = Call("hash", NoArg, digest, <<>>)
    /\ lock = Free
    /\ pc = AllIdle
    /\ service_registry = NoCalls

render ==
    /\ call.op = "hash"
    /\ call' = Call("to_hex", call.ret, to_hex(call.ret), <<>>)
    /\ UNCHANGED <<consensus, network_sender, pending, queued, authorized, poisoned,
                   alive, phase, directory, subscribers,
                   lock, pc, service_registry>>

NextHex == render

SpecHex == InitHex /\ [][NextHex]_vars

\* ---------------------------------------------------------------- threads

\* The functions of the service statement by statement, with the Mutex around
\* the shared state. main runs new, start and stop; engine is the thread of
\* the consensus engine, which calls back into the shared state; auth is the
\* thread on which the authorization inquisitor delivers state changes;
\* intake is the thread that serves the REST routes.
Threads == {"main", "engine", "auth", "intake"}

goto(t, label) == pc' = [pc EXCEPT ![t] = label]

untouched ==
    <<pending, queued, authorized, alive, phase, directory, subscribers, call,
      service_registry>>

\* AdminService::new: new_service.admin_service_shared.lock().
new_lock ==
    /\ pc.main = "new_lock"
    /\ lock = Free
    /\ lock' = "main"
    /\ goto("main", "new_register")
    /\ UNCHANGED <<consensus, network_sender, poisoned, untouched>>

\* AdminService::new: .auth_inquisitor().register_callback(..) on the guard.
\* synchronous: the inquisitor invokes the callback before it returns.
new_register(synchronous) ==
    /\ pc.main = "new_register"
    /\ IF synchronous THEN goto("main", "callback_lock")
       ELSE pc' = [pc EXCEPT !.main = "new_return", !.auth = "idle"]
    /\ UNCHANGED <<lock, consensus, network_sender, poisoned, untouched>>

\* AdminService::new: the guard is dropped at the end of the statement.
new_return ==
    /\ pc.main = "new_return"
    /\ lock' = Free
    /\ goto("main", "idle")
    /\ UNCHANGED <<consensus, network_sender, poisoned, untouched>>

\* The callback's auth_callback_shared.lock() on the thread that holds the
\* Mutex: std::sync::Mutex leaves the outcome open, the call does not return:
\* the thread panics (the guard it holds poisons the Mutex) or blocks forever.
callback_relock(panics) ==
    /\ pc.main = "callback_lock"
    /\ lock = "main"
    /\ IF panics THEN /\ poisoned' = TRUE
                      /\ lock' = Free
                      /\ goto("main", "panicked")
       ELSE /\ goto("main", "deadlocked")
            /\ UNCHANGED <<lock, poisoned>>
    /\ UNCHANGED <<consensus, network_sender, untouched>>

\* start: if self.consensus.is_some() .. ; service_registry.connect(..)?.
start_connect(connect_ok) ==
    /\ pc.main = "idle"
    /\ consensus = None
    /\ goto("main", IF connect_ok THEN "start_lock" ELSE "idle")
    /\ UNCHANGED <<lock, consensus, network_sender, poisoned, untouched>>

\* start: the block that locks and calls set_network_sender(Some(..)).
start_lock ==
    /\ pc.main = "start_lock"
    /\ lock = Free
    /\ IF poisoned THEN /\ goto("main", "idle")
                        /\ UNCHANGED <<lock, network_sender>>
       ELSE /\ lock' = "main"
            /\ network_sender' = Some
            /\ goto("main", "start_unlock")
    /\ UNCHANGED <<consensus, poisoned, untouched>>

start_unlock ==
    /\ pc.main = "start_unlock"
    /\ lock' = Free
    /\ goto("main", "start_consensus")
    /\ UNCHANGED <<consensus, network_sender, poisoned, untouched>>

\* start: AdminConsensusManager::new(..) starts the engine thread.
start_consensus(new_ok) ==
    /\ pc.main = "start_consensus"
    /\ IF new_ok THEN /\ consensus' = Some
                      /\ pc' = [pc EXCEPT !.main = "idle", !.engine = "running"]
       ELSE /\ goto("main", "idle")
            /\ UNCHANGED consensus
    /\ UNCHANGED <<lock, network_sender, poisoned, untouched>>

\* stop: the first service_registry.disconnect(..)?.
stop_disconnect(first_ok) ==
    /\ pc.main = "idle"
    /\ goto("main", IF first_ok THEN "stop_lock" ELSE "idle")
    /\ UNCHANGED <<lock, consensus, network_sender, poisoned, untouched>>

\* stop: let mut admin_service_shared = self.admin_service_shared.lock()..;
\* the guard lives to the end of the function.
stop_lock ==
    /\ pc.main = "stop_lock"
    /\ lock = Free
    /\ IF poisoned THEN /\ goto("main", "idle")
                        /\ UNCHANGED lock
       ELSE /\ lock' = "main"
            /\ goto("main", "stop_take")
    /\ UNCHANGED <<consensus, network_sender, poisoned, untouched>>

\* stop: self.consensus.take().ok_or_else(|| NotStarted)?.
stop_take ==
    /\ pc.main = "stop_take"
    /\ IF consensus = None THEN /\ lock' = Free
                                /\ goto("main", "idle")
                                /\ UNCHANGED consensus
       ELSE /\ consensus' = consensus_after_take
            /\ goto("main", "stop_shutdown")
            /\ UNCHANGED lock
    /\ UNCHANGED <<network_sender, poisoned, untouched>>

\* AdminConsensusManager::shutdown: synchronous, it returns when the engine
\* thread has halted, which the engine does between two callbacks.
stop_shutdown(shutdown_ok) ==
    /\ pc.main = "stop_shutdown"
    /\ pc.engine = "running"
    /\ IF shutdown_ok THEN /\ pc' = [pc EXCEPT !.main = "stop_disconnect2",
                                                !.engine = "absent"]
                           /\ UNCHANGED lock
       ELSE /\ pc' = [pc EXCEPT !.main = "idle", !.engine = "absent"]
            /\ lock' = Free
    /\ UNCHANGED <<consensus, network_sender, poisoned, untouched>>

\* stop: the second service_registry.disconnect(..)?.
stop_disconnect2(second_ok) ==
    /\ pc.main = "stop_disconnect2"
    /\ IF second_ok THEN /\ goto("main", "stop_clear")
                         /\ UNCHANGED lock
       ELSE /\ goto("main", "idle")
            /\ lock' = Free
    /\ UNCHANGED <<consensus, network_sender, poisoned, untouched>>

\* stop: admin_service_shared.set_network_sender(None); the guard is dropped.
stop_clear ==
    /\ pc.main = "stop_clear"
    /\ network_sender' = None
    /\ lock' = Free
    /\ goto("main", "idle")
    /\ UNCHANGED <<consensus, poisoned, untouched>>

\* The engine decides on a proposal: it calls on_proposal_accepted or
\* on_proposal_rejected through its handle on the shared state.
engine_decides ==
    /\ pc.engine = "running"
    /\ goto("engine", "callback_lock")
    /\ UNCHANGED <<lock, consensus, network_sender, poisoned, untouched>>

engine_lock ==
    /\ pc.engine = "callback_lock"
    /\ lock = Free
    /\ IF poisoned THEN /\ goto("engine", "running")
                        /\ UNCHANGED lock
       ELSE /\ lock' = "engine"
            /\ goto("engine", "callback_body")
    /\ UNCHANGED <<consensus, network_sender, poisoned, untouched>>

engine_return ==
    /\ pc.engine = "callback_body"
    /\ lock' = Free
    /\ goto("engine", "running")
    /\ UNCHANGED <<consensus, network_sender, poisoned, untouched>>

\* The inquisitor reports a state change of a peer on its own thread: the
\* registered callback runs.
auth_event ==
    /\ pc.auth = "idle"
    /\ goto("auth", "callback_lock")
    /\ UNCHANGED <<lock, consensus, network_sender, poisoned, untouched>>

auth_lock ==
    /\ pc.auth = "callback_lock"
    /\ lock = Free
    /\ IF poisoned THEN /\ goto("auth", "idle")
                        /\ UNCHANGED lock
       ELSE /\ lock' = "auth"
            /\ goto("auth", "callback_body")
    /\ UNCHANGED <<consensus, network_sender, poisoned, untouched>>

auth_return ==
    /\ pc.auth = "callback_body"
    /\ lock' = Free
    /\ goto("auth", "idle")
    /\ UNCHANGED <<consensus, network_sender, poisoned, untouched>>

\* A request arrives on a route that uses the shared state (POST
\* /admin/circuit, GET /ws/admin/register/{type}): the handler locks it.
intake_request ==
    /\ pc.intake = "idle"
    /\ pc.main \notin {"new_lock", "new_register", "new_return"}
    /\ goto("intake", "request_lock")
    /\ UNCHANGED <<lock, consensus, network_sender, poisoned, untouched>>

intake_lock ==
    /\ pc.intake = "request_lock"
    /\ lock = Free
    /\ IF poisoned THEN /\ goto("intake", "idle")
                        /\ UNCHANGED lock
       ELSE /\ lock' = "intake"
            /\ goto("intake", "request_body")
    /\ UNCHANGED <<consensus, network_sender, poisoned, untouched>>

intake_return ==
    /\ pc.intake = "request_body"
    /\ lock' = Free
    /\ goto("intake", "idle")
    /\ UNCHANGED <<consensus, network_sender, poisoned, untouched>>

\* The service is about to be constructed: no callback is registered yet.
InitThreads ==
    /\ consensus = None
    /\ network_sender = None
    /\ pending = <<>>
    /\ queued = <<>>
    /\ authorized = {}
    /\ poisoned = FALSE
    /\ alive = TRUE
    /\ phase = "Created"
    /\ directory = {}
    /\ subscribers = {}
    /\ call = Call("new", NoArg, "-", <<>>)
    /\ lock = Free
    /\ pc = [AllIdle EXCEPT !.main = "new_lock", !.auth = "unregistered"]
    /\ service_registry = NoCalls

NextThreads ==
    \/ new_lock
    \/ \E synchronous \in BOOLEAN : new_register(synchronous)
    \/ new_return
    \/ \E panics \in BOOLEAN : callback_relock(panics)
    \/ \E connect_ok \in BOOLEAN : start_connect(connect_ok)
    \/ start_lock
    \/ start_unlock
    \/ \E new_ok \in BOOLEAN : start_consensus(new_ok)
    \/ \E first_ok \in BOOLEAN : stop_disconnect(first_ok)
    \/ stop_lock
    \/ stop_take
    \/ \E shutdown_ok \in BOOLEAN : stop_shutdown(shutdown_ok)
    \/ \E second_ok \in BOOLEAN : stop_disconnect2(second_ok)
    \/ stop_clear
    \/ engine_decides
    \/ engine_lock
    \/ engine_return
    \/ auth_event
    \/ auth_lock
    \/ auth_return
    \/ intake_request
    \/ intake_lock
    \/ intake_return

SpecThreads == InitThreads /\ [][NextThreads]_vars

\* ---------------------------------------------------------------- registry

\* The most calls of a kind the registry is followed through.
MaxCalls == 3

\* MockNetworkRegistry seen from outside: the calls a handler made are added
\* to the counts, connect calls that handed out a sender and disconnect calls.
registry_after(effects) ==
    LET connected == {i \in DOMAIN effects :
                         effects[i].kind = "connect" /\ effects[i].ok}
        disconnected == {i \in DOMAIN effects : effects[i].kind = "disconnect"}
    IN  [connects |-> service_registry.connects + Cardinality(connected),
         disconnects |-> service_registry.disconnects + Cardinality(disconnected)]

\* AdminService::start on a registry that counts.
registry_start(connect_ok, new_ok) ==
    /\ alive
    /\ service_registry.connects < MaxCalls
    /\ LET o == start_outcome(connect_ok, new_ok) IN
        /\ consensus' = o.consensus
        /\ network_sender' = o.network_sender
        /\ phase' = IF o.ret = "Ok" THEN "Started" ELSE phase
        /\ call' = Call("start", NoArg, o.ret, o.effects)
        /\ service_registry' = registry_after(o.effects)
    /\ UNCHANGED <<pending, queued, authorized, poisoned, alive, directory, subscribers,
                   lock, pc>>

\* AdminService::stop on a registry that counts.
registry_stop(first_ok, shutdown_ok, second_ok) ==
    /\ alive
    /\ service_registry.disconnects < MaxCalls
    /\ LET o == stop_outcome(first_ok, shutdown_ok, second_ok) IN
        /\ consensus' = o.consensus
        /\ network_sender' = o.network_sender
        /\ phase' = IF o.ret = "Ok" THEN "Stopped" ELSE phase
        /\ call' = Call("stop", NoArg, o.ret, o.effects)
        /\ service_registry' = registry_after(o.effects)
    /\ UNCHANGED <<pending, queued, authorized, poisoned, alive, directory, subscribers,
                   lock, pc>>

InitRegistry == Init /\ authorized = {}

NextRegistry ==
    \/ \E connect_ok, new_ok \in BOOLEAN : registry_start(connect_ok, new_ok)
    \/ \E first_ok, shutdown_ok, second_ok \in BOOLEAN :
           registry_stop(first_ok, shutdown_ok, second_ok)
    \/ poison

SpecRegistry == InitRegistry /\ [][NextRegistry]_vars

\* ---------------------------------------------------------------- properties

\* The well-formed envelope of the last handle_message call, if any.
Handled == parse_from_bytes(call.arg.message_bytes)

HandledType ==
    IF call.op = "handle_message" /\ Handled.ok THEN Handled.value.message_type
    ELSE "none"

\* Some collaborator call of the last operation failed.
Failed(effects) ==
    \E i \in DOMAIN effects : "ok" \in DOMAIN effects[i] /\ ~effects[i].ok

OfKind(effects, kind) ==
    LET Is(e) == e.kind = kind IN SelectSeq(effects, Is)

\* C1: the network sender of the shared state is present if and only if the
\* consensus manager is present (the service is Started), in every reachable
\* state.
C1_SenderIffStarted ==
    (network_sender # None) <=> (consensus # None)

\* C2 as stated: handle_message on a service that is Created returns
\* NotStarted for every inbound message (internal failures, the digest and the
\* lock, set aside), and likewise after a successful stop.
C2_NotStartedForEveryMessage ==
    (call.op = "handle_message" /\ call.pre.phase \in {"Created", "Stopped"})
        => call.ret \in {"NotStarted", "UnableToHandleMessage", "PoisonedLock"}

\* C2 amended: handle_message decodes before it looks at the lifecycle. A
\* message that does not decode or is of type UNSET returns
\* InvalidMessageFormat in every state. A CONSENSUS_MESSAGE or
\* PROPOSED_CIRCUIT message returns NotStarted on a service that is Created or
\* was stopped (a PROPOSED_CIRCUIT only after its digest was computed and the
\* lock taken), and on a Started service is dispatched: the consensus message
\* to the consensus manager, the proposal to the pending table and then to
\* the consensus manager.
C2_DecodeThenRequireStarted ==
    call.op = "handle_message" =>
        /\ HandledType \in {"none", "UNSET"} =>
              call.ret = "InvalidMessageFormat" /\ call.effects = <<>>
        /\ call.pre.phase \in {"Created", "Stopped"} => call.pre.consensus = None
        /\ (HandledType = "CONSENSUS_MESSAGE" /\ call.pre.consensus = None) =>
              call.ret = "NotStarted" /\ call.effects = <<>>
        /\ (HandledType = "CONSENSUS_MESSAGE" /\ call.pre.consensus # None) =>
              /\ call.ret \in {"Ok", "UnableToHandleMessage"}
              /\ call.effects =
                    <<ConsensusHandleMessage(Handled.value.body, call.ret = "Ok")>>
        /\ (HandledType = "PROPOSED_CIRCUIT" /\ call.pre.consensus = None) =>
              \/ call.ret = "NotStarted" /\ OfKind(call.effects, "send_update") = <<>>
              \/ call.ret = "UnableToHandleMessage" /\ call.effects = <<>>
              \/ call.ret = "PoisonedLock" /\ poisoned
        /\ (HandledType = "PROPOSED_CIRCUIT" /\ call.pre.consensus # None) =>
              \/ /\ call.ret \in {"Ok", "UnableToHandleMessage"}
                 /\ Len(OfKind(call.effects, "add_pending_consesus_proposal")) = 1
                 /\ Len(OfKind(call.effects, "send_update")) = 1
                 /\ Failed(call.effects) <=> call.ret # "Ok"
              \/ call.ret = "UnableToHandleMessage" /\ call.effects = <<>>
              \/ call.ret = "PoisonedLock" /\ poisoned

\* C2 witness: a message handled after a successful stop is refused.
C2_Witness ==
    /\ call.op = "handle_message"
    /\ call.pre.phase = "Stopped"
    /\ HandledType = "CONSENSUS_MESSAGE"
    /\ call.ret = "NotStarted"

\* C3: start on a Started service returns AlreadyStarted, calls nothing and
\* changes nothing; start returns AlreadyStarted in no other state; a start on
\* a service that is not Started, whose collaborators do not fail, returns Ok
\* and leaves the service Started, also after a successful stop.
C3_StartOnlyWhenNotStarted ==
    call.op = "start" =>
        /\ call.pre.consensus # None =>
              /\ call.ret = "AlreadyStarted"
              /\ call.effects = <<>>
              /\ consensus = call.pre.consensus
              /\ network_sender = call.pre.network_sender
        /\ call.ret = "AlreadyStarted" => call.pre.consensus # None
        /\ call.pre.phase \in {"Created", "Stopped"} => call.ret # "AlreadyStarted"
        /\ (call.pre.consensus = None /\ ~poisoned /\ ~Failed(call.effects)) =>
              call.ret = "Ok"
        /\ call.ret = "Ok" =>
              /\ consensus # None /\ network_sender # None /\ phase = "Started"
              /\ Len(OfKind(call.effects, "connect")) = 1

\* C3 witness: a start after a successful stop succeeds.
C3_Witness ==
    /\ call.op = "start"
    /\ call.pre.phase = "Stopped"
    /\ call.ret = "Ok"
    /\ phase = "Started"

\* C4 as stated: destroy returns NotStopped in every lifecycle state but
\* Stopped, and succeeds when Stopped.
C4_DestroyOnlyWhenStopped ==
    call.op = "destroy" =>
        (call.ret = "Ok" <=> call.pre.phase = "Stopped")

\* C4 amended: destroy returns NotStopped exactly when the service is Started
\* (its consensus manager is present); on a service that was never started,
\* and after a successful stop, destroy succeeds.
C4_DestroyUnlessStarted ==
    call.op = "destroy" =>
        /\ call.ret = "NotStopped" <=> call.pre.consensus # None
        /\ call.ret = "Ok" <=> call.pre.consensus = None
        /\ call.pre.phase \in {"Created", "Stopped"} => call.ret = "Ok"

\* C4 witness: a service that was never started is destroyed.
C4_Witness ==
    /\ call.op = "destroy"
    /\ call.pre.phase = "Created"
    /\ call.ret = "Ok"

\* C5: stop on a service that is Created or already Stopped returns
\* NotStarted, whatever the registry answers to disconnect (a poisoned lock
\* set aside).
C5_StopRequiresStarted ==
    (call.op = "stop" /\ call.pre.phase \in {"Created", "Stopped"} /\ ~poisoned)
        => call.ret = "NotStarted"

\* C6: every ProposalReceived update delivered to the consensus manager comes
\* after the insertion of the pending entry for its proposal id in the same
\* call, and the pending table holds that id when the call returns.
C6_InsertBeforeDeliver ==
    \A j \in DOMAIN call.effects :
        (call.effects[j].kind = "send_update" /\ call.effects[j].ok) =>
            /\ call.effects[j].update.type = "ProposalReceived"
            /\ \E i \in 1..(j - 1) :
                  /\ call.effects[i].kind = "add_pending_consesus_proposal"
                  /\ call.effects[i].id = call.effects[j].update.proposal.id
            /\ call.effects[j].update.proposal.id \in DOMAIN pending

\* C6 witness: a PROPOSED_CIRCUIT message was handled and its update
\* delivered.
C6_Witness ==
    /\ call.op = "handle_message"
    /\ HandledType = "PROPOSED_CIRCUIT"
    /\ Len(call.effects) = 2
    /\ call.effects[2].kind = "send_update"
    /\ call.effects[2].ok

C8_KeyIsPayloadDigest ==
    \A id \in DOMAIN pending :
        /\ sha256(pending[id].payload, TRUE).value = id
        /\ pending[id].proposal.id = id

\* C8 witness: the table holds an entry inserted for a peer's message and one
\* inserted by a local proposal.
C8_Witness ==
    /\ call.op = "create_circuit"
    /\ call.ret = "Ok"
    /\ \E id \in DOMAIN pending : pending[id].proposal.summary \in {"h1", "h2"}
    /\ \E id \in DOMAIN pending :
          pending[id].proposal.summary = to_hex(Digest(call.arg.circuit))

\* C9: a proposal accepted by a Started service whose other members are all
\* authorized sends exactly one PROPOSED_CIRCUIT envelope to admin::<node_id>
\* of each member but the local node, none to the local node, each carrying a
\* CIRCUIT_CREATE_REQUEST for the proposed circuit.
C9_OneEnvelopePerOtherMember ==
    LET circuit == call.arg.circuit
        sends == OfKind(call.effects, "send")
        others == {circuit.members[i] : i \in DOMAIN circuit.members} \ {LocalNode}
    IN  (call.op = "create_circuit" /\ call.ret = "Ok" /\ others \subseteq authorized) =>
            /\ call.pre.network_sender # None
            /\ Len(sends) = Cardinality(others)
            /\ \A n \in others :
                  Cardinality({i \in DOMAIN sends :
                                  sends[i].recipient = "admin::" \o n}) = 1
            /\ \A i \in DOMAIN sends :
                  LET envelope == parse_from_bytes(sends[i].message) IN
                  /\ sends[i].recipient # "admin::" \o LocalNode
                  /\ envelope.ok
                  /\ envelope.value.message_type = "PROPOSED_CIRCUIT"
                  /\ envelope.value.body.circuit_payload.action = "CIRCUIT_CREATE_REQUEST"
                  /\ envelope.value.body.circuit_payload.circuit = circuit

\* C9 witness: a circuit with two other members, both authorized, was
\* proposed.
C9_Witness ==
    /\ call.op = "create_circuit"
    /\ call.ret = "Ok"
    /\ call.arg.circuit = CircuitB
    /\ authorized = Peers
    /\ Len(OfKind(call.effects, "send")) = 2

\* C10: a proposal refused as AlreadyPending sends nothing and inserts
\* nothing, and in every reachable state the pending table holds at most one
\* proposal per circuit_id.
C10_AtMostOnePendingPerCircuit ==
    /\ (call.op = "create_circuit" /\ call.ret = "AlreadyPending") => call.effects = <<>>
    /\ \A i, j \in DOMAIN pending :
          pending[i].payload.circuit.circuit_id = pending[j].payload.circuit.circuit_id
              => i = j

\* The circuit whose create request has this proposal id.
CircuitOf(id) == CHOOSE c \in ValidCircuits : to_hex(Digest(CreateRequest(c))) = id

\* The last operation was on_proposal_accepted and returned Ok.
Accepted == call.op = "on_proposal_accepted" /\ call.ret = "Ok"

\* The places of the effects that publish this event type of a circuit on a
\* channel.
Published(ch, type, circuit) ==
    {i \in DOMAIN call.effects :
        call.effects[i] = Publish(ch, CircuitEvent(type, circuit))}

\* C11: after on_proposal_accepted(id) returns Ok the directory holds the
\* circuit, the pending table does not hold id, start_service was invoked
\* exactly for the roster services the local node may run, and every
\* subscriber of the circuit's management type (and no other channel) got
\* exactly one CircuitReady event; and no step removes a circuit from the
\* directory.
C11_CommitOnAccept ==
    /\ [](Accepted =>
            LET id == call.arg.id
                circuit == CircuitOf(id)
                starts == OfKind(call.effects, "start_service")
                local == {circuit.roster[i].service_id : i \in
                             {j \in DOMAIN circuit.roster :
                                 LocalNode \in circuit.roster[j].allowed_nodes}}
            IN  /\ circuit \in directory
                /\ id \notin DOMAIN pending
                /\ {starts[i].service_id : i \in DOMAIN starts} = local
                /\ Len(starts) = Cardinality(local)
                /\ \A ch \in Channels :
                      Cardinality(Published(ch, "CircuitReady", circuit)) =
                          IF ch \in subscribers
                             /\ ch.type = circuit.circuit_management_type
                          THEN 1 ELSE 0)
    /\ [][directory \subseteq directory']_vars

\* C11 witness: a circuit with two local services and one remote service
\* was committed while a client was subscribed to its management type and
\* another circuit was already in the directory.
C11_Witness ==
    /\ Accepted
    /\ CircuitOf(call.arg.id) = CircuitB
    /\ Len(OfKind(call.effects, "start_service")) = 2
    /\ \E ch \in subscribers : Published(ch, "CircuitReady", CircuitB) # {}
    /\ CircuitC \in directory
    /\ CircuitB \in directory

\* The last operation was on_proposal_accepted and the directory write failed.
DirectoryFailed ==
    /\ call.op = "on_proposal_accepted"
    /\ \E i \in DOMAIN call.effects :
          call.effects[i].kind = "directory_commit" /\ ~call.effects[i].ok

\* The last operation was on_proposal_accepted and a service failed to start.
OrchestratorFailed ==
    /\ call.op = "on_proposal_accepted"
    /\ \E i \in DOMAIN call.effects :
          call.effects[i].kind = "start_service" /\ ~call.effects[i].ok

\* C12: when the directory write of on_proposal_accepted(id) fails, the
\* error is returned, nothing else was done, the pending entry is still
\* there and a later on_proposal_accepted(id) whose write succeeds commits
\* the circuit; when a service fails to start, the call still returns Ok,
\* the circuit is in the directory and the failure was published.
C12_PartialFailurePolicy ==
    /\ DirectoryFailed =>
          LET id == call.arg.id
              circuit == CircuitOf(id)
              retry == on_proposal_accepted(id, TRUE, TRUE)
          IN  /\ call.ret = "DirectoryError"
              /\ Len(call.effects) = 1
              /\ id \in DOMAIN pending
              /\ pending[id].payload = CreateRequest(circuit)
              /\ ~directory_contains(circuit.circuit_id) =>
                    /\ retry.ret = "Ok"
                    /\ circuit \in retry.directory
    /\ OrchestratorFailed =>
          LET circuit == CircuitOf(call.arg.id)
          IN  /\ call.ret = "Ok"
              /\ circuit \in directory
              /\ \A ch \in subscribers_of(subscribers, circuit.circuit_management_type) :
                    Published(ch, "ServiceStartFailed", circuit) # {}

\* C12 witness: the directory write failed for a proposal whose circuit_id
\* is not in the directory, while another circuit is committed.
C12_Witness ==
    /\ DirectoryFailed
    /\ call.arg.id \in DOMAIN pending
    /\ ~directory_contains(CircuitOf(call.arg.id).circuit_id)
    /\ directory # {}

\* The effects hold a PROPOSED_CIRCUIT envelope for this circuit addressed to
\* the admin service of node n.
SentTo(effects, n, circuit) ==
    \E i \in DOMAIN effects :
        /\ effects[i].kind = "send"
        /\ effects[i].recipient = "admin::" \o n
        /\ LET envelope == parse_from_bytes(effects[i].message) IN
            /\ envelope.ok
            /\ envelope.value.message_type = "PROPOSED_CIRCUIT"
            /\ envelope.value.body.circuit_payload = CreateRequest(circuit)

\* Every envelope of the last operation went to a peer that is authorized.
OnlyToAuthorized ==
    \A i \in DOMAIN call.effects :
        call.effects[i].kind = "send" =>
            \E n \in authorized : call.effects[i].recipient = "admin::" \o n

\* The proposals queued for authorization that wait for this peer.
WaitingFor(peer_id) ==
    {c \in ValidCircuits :
        /\ to_hex(Digest(CreateRequest(c))) \in DOMAIN queued
        /\ peer_id \in queued[to_hex(Digest(CreateRequest(c)))]}

\* C13 as stated: no envelope goes to a peer that is not authorized, and a
\* callback on_authorization_change(M, Authorized) emits the envelope to
\* admin::M of every proposal that waited for M.
C13_EnvelopeOnAuthorization ==
    /\ []OnlyToAuthorized
    /\ [][(call'.op = "auth_callback" /\ call'.arg.state = "Authorized") =>
             \A c \in WaitingFor(call'.arg.peer_id) :
                 SentTo(call'.effects, call'.arg.peer_id, c)]_vars

\* C13 amended: no envelope goes to a peer that is not authorized; a
\* callback on_authorization_change(M, Authorized) that takes the lock
\* records M as authorized and, on a service with a network sender, emits,
\* for every proposal that waited for
\* M and whose other members are now all authorized, the envelope to each
\* peer the proposal waited for and takes it off the queue; a proposal that
\* still waits for another peer stays queued and nothing is sent for it.
C13_EnvelopeWhenAllAuthorized ==
    /\ []OnlyToAuthorized
    /\ [][(call'.op = "auth_callback" /\ call'.arg.state = "Authorized"
            /\ call'.ret = "Ok" /\ network_sender # None) =>
             /\ call'.arg.peer_id \in authorized'
             /\ \A c \in WaitingFor(call'.arg.peer_id) :
                 LET id == to_hex(Digest(CreateRequest(c))) IN
                 IF {c.members[i] : i \in DOMAIN c.members} \ {LocalNode} \subseteq authorized'
                 THEN /\ \A n \in queued[id] : SentTo(call'.effects, n, c)
                      /\ id \notin DOMAIN queued'
                 ELSE /\ \A n \in Peers : ~SentTo(call'.effects, n, c)
                      /\ id \in DOMAIN queued'
                      /\ queued'[id] = queued[id]]_vars

\* C13 witness: a proposal that waited for both peers was released by the
\* callback that authorized the second of them.
C13_Witness ==
    /\ call.op = "auth_callback"
    /\ call.arg.state = "Authorized"
    /\ call.arg.peer_id = "n3"
    /\ SentTo(call.effects, "n2", CircuitB)
    /\ SentTo(call.effects, "n3", CircuitB)
    /\ queued = <<>>

\* C14: POST /admin/circuit answers 202 Accepted exactly when propose_circuit
\* returns Ok, 400 Bad Request when the payload does not decode or the
\* circuit is invalid, and 500 Internal Server Error when the service has no
\* network sender (NotStarted) or the shared-state lock is poisoned.
C14_IntakeStatusMapping ==
    call.op = "create_circuit" =>
        /\ call.status = "Accepted" <=> call.ret = "Ok"
        /\ call.ret \in {"InvalidProto", "InvalidCircuit"} => call.status = "BadRequest"
        /\ call.ret = "NotStarted" => call.status = "InternalServerError"
        /\ (poisoned /\ call.ret # "InvalidProto") => call.status = "InternalServerError"

\* C15: a vote for a pending proposal that POST /admin/vote answers with 202
\* Accepted was routed into the service: the handler passed it on to the
\* shared state or the consensus adapter.
C15_VoteRouted ==
    (/\ call.op = "vote"
     /\ call.status = "Accepted"
     /\ consensus # None
     /\ call.arg.proposal_id \in DOMAIN pending) => call.effects # <<>>

\* The bytes of the call about to return are no AdminMessage, or are the
\* encoding of a message whose type is UNSET.
Undispatchable(bytes) == bytes \in {Garbage, write_to_bytes(DefaultMessage)}

\* C16: on a Started service, handle_message of bytes that do not decode or
\* that decode to an UNSET message returns InvalidMessageFormat, calls no
\* collaborator (nothing reaches the consensus adapter, nothing is sent) and
\* changes neither the pending table nor any other part of the state.
C16_UndecodableDropped ==
    [][(/\ call'.op = "handle_message"
        /\ Undispatchable(call'.arg.message_bytes)
        /\ consensus # None) =>
           /\ call'.ret = "InvalidMessageFormat"
           /\ call'.effects = <<>>
           /\ UNCHANGED <<consensus, network_sender, pending, queued, authorized,
                          poisoned, alive, phase, directory, subscribers>>]_vars

\* C16 witness: a Started service with a pending proposal was handed bytes
\* that are no AdminMessage.
C16_Witness ==
    /\ call.op = "handle_message"
    /\ call.arg.message_bytes = Garbage
    /\ call.ret = "InvalidMessageFormat"
    /\ call.pre.consensus # None
    /\ consensus # None
    /\ pending # <<>>

\* C20: a handle_message call that returns NotStarted leaves the shared
\* state as it was; in particular it adds no entry to the pending table.
C20_NotStartedLeavesStateUnchanged ==
    [][(call'.op = "handle_message" /\ call'.ret = "NotStarted") =>
           /\ OfKind(call'.effects, "add_pending_consesus_proposal") = <<>>
           /\ UNCHANGED <<pending, queued, authorized, network_sender,
                          directory, subscribers>>]_vars

\* The two hexadecimal characters of every byte, high nibble first.
RECURSIVE TwoPerByte(_)
TwoPerByte(bytes) ==
    IF bytes = <<>> THEN ""
    ELSE HexDigit(Head(bytes) \div 16) \o HexDigit(Head(bytes) % 16)
             \o TwoPerByte(Tail(bytes))

\* C19: to_hex(b) has 2 * len(b) characters, the characters 2i and 2i+1 are
\* the high and the low nibble of byte i, and byte sequences that differ
\* render to strings that differ.
C19_TwoHexCharsPerByte ==
    call.op = "to_hex" =>
        /\ Len(call.ret) = 2 * Len(call.arg)
        /\ call.ret = TwoPerByte(call.arg)
        /\ \A other \in DigestBytes :
              (other # call.arg /\ Len(other) = Len(call.arg)) =>
                  to_hex(other) # call.ret

\* C17: stop does not wait for the shutdown of the consensus manager while it
\* holds the lock on the shared state, so stop is never waiting in shutdown
\* for an engine thread that waits for the lock stop holds.
C17_ShutdownOutsideLock ==
    /\ pc.main = "stop_shutdown" => lock # "main"
    /\ ~(/\ pc.main = "stop_shutdown"
         /\ lock = "main"
         /\ pc.engine = "callback_lock")

\* C18: no thread enters the authorization callback, which locks the shared
\* state, while it holds that lock itself; AdminService::new neither blocks
\* forever nor panics in register_callback.
C18_CallbackOutsideLock ==
    /\ \A t \in {"main", "auth"} : pc[t] = "callback_lock" => lock # t
    /\ pc.main \notin {"deadlocked", "panicked"}

\* C21: a lifecycle transition that fails leaves the lifecycle state as it
\* was. After a stop that returns an error on a Started service the service
\* is still Started: destroy returns NotStopped and handle_message still
\* dispatches a consensus message. After a start that returns an error on a
\* service that was not Started, handle_message still returns NotStarted.
C21_FailedTransitionKeepsState ==
    LET consensus_message == write_to_bytes(ConsensusEnvelope("m1"))
        dispatched == handle_message_outcome(consensus_message, "admin::n2", TRUE, TRUE)
    IN  /\ (call.op = "stop" /\ call.ret # "Ok" /\ call.pre.consensus # None) =>
              /\ consensus # None
              /\ destroy_result = "NotStopped"
              /\ dispatched.ret = "Ok"
        /\ (call.op = "start" /\ call.ret # "Ok" /\ call.pre.consensus = None) =>
              /\ consensus = None
              /\ dispatched.ret = "NotStarted"

\* C22: a start that returns Ok has called registry.connect exactly once, a
\* stop that returns Ok has called registry.disconnect exactly once, a stop
\* that returns NotStarted has not called registry.disconnect, and the
\* registry has never received more disconnect calls than it has handed out
\* senders.
C22_ConnectsBalanceDisconnects ==
    /\ (call.op = "start" /\ call.ret = "Ok") =>
          Len(OfKind(call.effects, "connect")) = 1
    /\ (call.op = "stop" /\ call.ret = "Ok") =>
          Len(OfKind(call.effects, "disconnect")) = 1
    /\ (call.op = "stop" /\ call.ret = "NotStarted") =>
          Len(OfKind(call.effects, "disconnect")) = 0
    /\ service_registry.disconnects <= service_registry.connects

====
